---------------------------- MODULE Spec2Model ----------------------------
(***************************************************************************)
(* The chat page of purira_client (src/routes/+page.svelte) as a state    *)
(* machine.  One JavaScript event loop runs every handler: a handler runs *)
(* from its call, or from the completion it awaits, to its next await     *)
(* without interruption, so each action below is one such run.  An await  *)
(* that resolves within the same task (tick()) ends no action: no timer,  *)
(* reply or user event can run in between.                                *)
(*                                                                         *)
(* Texts are sequences of one-character strings so that trim() is         *)
(* computed.  An absent optional field (undefined) and the empty string   *)
(* are both falsy in the source's tests and are both written "".          *)
(***************************************************************************)
EXTENDS Integers, Sequences, FiniteSets, TLC

(***************************************************************************)
(* Bounds of the model.                                                     *)
(***************************************************************************)
\* Exchanges are started only while the timeline is shorter than this.
MaxTimeline == 2
\* Proactive-check ticks whose should-send query is still pending: two, so
\* that a query slower than the period overlaps the next tick's.
MaxChecks == 2
\* attachImage calls whose cache write is still pending.
MaxAttaching == 1
\* Summarizations begun and not yet over: start requests pending plus poll
\* timers running.
MaxSummarizations == 1
\* Summarization-status queries still pending.
MaxPolls == 2

(***************************************************************************)
(* Values the environment supplies.                                         *)
(***************************************************************************)
\* What the user can have typed into the textarea.
Texts == { <<" ">>, <<" ", "h", "i", " ">> }

\* attachedImage === null
Null == <<>>

\* { filename, data } of the images the user can pick.
Images == { [filename |-> "1.png", data |-> "AAAA"],
            [filename |-> "2.jpg", data |-> "BBBB"] }

\* api.ts Message records; content_raw, time and message_type are never read
\* by the page.
ApiMsg(role, split, mood, image) ==
    [role |-> role, content_split |-> split, mood |-> mood, image_path |-> image]

\* Bodies of a successful /api/message or /api/proactive-message reply.
ChatResponses ==
    { <<>>,
      << ApiMsg("assistant", << <<"a">> >>, "", ""),
         ApiMsg("assistant", << <<"b">> >>, "excited", "") >> }

\* Bodies of a successful /api/history reply.
HistoryResponses ==
    { <<>>,
      << ApiMsg("assistant", << <<"o">> >>, "normal", "") >> }

\* A failed call: the markers its message contains (String(err).includes).
SendErrors == { {}, {"503"}, {"summarization"}, {"Not enough messages"} }
ReminisceErrors == { {}, {"Not enough messages"}, {"503"} }

\* The files under /avatar of the session: <<mood, extension>>.
MainAssets == { <<"excited", "mp4">>, <<"normal", "jpg">>, <<"normal", "webp">> }

(***************************************************************************)
(* Pure functions of the page.                                              *)
(***************************************************************************)
RECURSIVE TrimStart(_)
TrimStart(s) ==
    IF s # <<>> /\ Head(s) = " " THEN TrimStart(Tail(s)) ELSE s

RECURSIVE TrimEnd(_)
TrimEnd(s) ==
    IF s # <<>> /\ s[Len(s)] = " " THEN TrimEnd(SubSeq(s, 1, Len(s) - 1)) ELSE s

\* String.prototype.trim
Trim(s) == TrimEnd(TrimStart(s))

\* JSON.stringify({ filename, data }) and JSON.parse of it.
JSONstringify(img) == << img.filename, img.data >>
JSONparse(s) == [filename |-> s[1], data |-> s[2]]

\* Variant of FlattenOne that shows an image message's first segment.
FlattenOneFirstSegment(msg) ==
    IF msg.image_path # "" /\ Len(msg.content_split) >= 2
    THEN << [role |-> msg.role, content |-> msg.content_split[1],
             mood |-> msg.mood, image_path |-> msg.image_path] >>
    ELSE [k \in 1..Len(msg.content_split) |->
             [role |-> msg.role, content |-> msg.content_split[k],
              mood |-> msg.mood, image_path |-> msg.image_path]]

\* Variant of FlattenOne that carries the mood on a message's first segment
\* only.
FlattenOneMoodOnce(msg) ==
    IF msg.image_path # "" /\ Len(msg.content_split) >= 2
    THEN << [role |-> msg.role, content |-> msg.content_split[2],
             mood |-> msg.mood, image_path |-> msg.image_path] >>
    ELSE [k \in 1..Len(msg.content_split) |->
             [role |-> msg.role, content |-> msg.content_split[k],
              mood |-> IF k = 1 THEN msg.mood ELSE "",
              image_path |-> msg.image_path]]

\* One element of flattenMessages' flatMap.
FlattenOne(msg) ==
    IF msg.image_path # "" /\ Len(msg.content_split) >= 2
    THEN << [role |-> msg.role, content |-> msg.content_split[2],
             mood |-> msg.mood, image_path |-> msg.image_path] >>
    ELSE [k \in 1..Len(msg.content_split) |->
             [role |-> msg.role, content |-> msg.content_split[k],
              mood |-> msg.mood, image_path |-> msg.image_path]]

RECURSIVE flattenMessages(_)
flattenMessages(apiMessages) ==
    IF apiMessages = <<>> THEN <<>>
    ELSE FlattenOne(Head(apiMessages)) \o flattenMessages(Tail(apiMessages))

\* Variant of imageFormats that tries jpg before png.
imageFormatsJpgFirst == << "jpg", "png", "jpeg", "gif", "webp" >>

imageFormats == << "png", "jpg", "jpeg", "gif", "webp" >>

\* fetch(`/avatar/${mood}.${ext}`, HEAD) answered ok; a failed fetch is caught
\* and counts as not ok.
Probe(avail, mood, ext) == << mood, ext >> \in avail

RECURSIVE get_extension(_, _)
get_extension(avail, mood) ==
    IF Probe(avail, mood, "mp4") THEN [mood |-> mood, extension |-> "mp4"]
    ELSE LET found == { k \in 1..Len(imageFormats) : Probe(avail, mood, imageFormats[k]) }
         IN  IF found # {}
             THEN [mood |-> mood,
                   extension |-> imageFormats[CHOOSE k \in found : \A j \in found : k <= j]]
             ELSE IF mood # "normal" THEN get_extension(avail, "normal")
             ELSE [mood |-> "normal", extension |-> "png"]

\* Array.prototype.slice(0, n)
Slice0(s, n) == SubSeq(s, 1, IF n < Len(s) THEN n ELSE Len(s))

\* Array.prototype.findLast(m => m.mood): the mood found, "" when none.
RECURSIVE FindLastMood(_)
FindLastMood(s) ==
    IF s = <<>> THEN ""
    ELSE IF s[Len(s)].mood # "" THEN s[Len(s)].mood
    ELSE FindLastMood(SubSeq(s, 1, Len(s) - 1))


(***************************************************************************)
(* State.                                                                   *)
(***************************************************************************)
VARIABLES
    messages,          \* the timeline: DisplayMessage records in display order
    message,           \* the textarea's text
    puriraWriting,     \* the spec's "sending" flag
    summarizing,
    summarizeError,
    connectionError,
    attachedImage,     \* Null or JSONstringify of the pending attachment
    currentMood,
    currentExtension,
    assets,            \* the avatar files that exist (environment)
    history,           \* the history load started by onMount
    ops,               \* Send Orchestrator calls between acceptance and exit
    checks,            \* should-send queries of proactive ticks still pending
    attaching,         \* images picked in attachImage, cache write pending
    starts,            \* startSummarization calls awaiting api.startSummarization
    timers,            \* ids of the poll intervals set and not cleared
    polls,             \* pending status queries: the interval id of each
    mounted,           \* FALSE once onMount's cleanup has run
    event,             \* observation of the last step (not program state)
    flattenArg,        \* a call flattenMessages(flattenArg) on its own ...
    flattenDone,       \* ... has returned ...
    flattenRes,        \* ... flattenRes
    moodArg,           \* a call get_extension(moodArg) on its own ...
    moodRound,         \* ... the mood and the next probe of its current round
    moodRounds,        \* ... the rounds (calls of get_extension) it has begun
    moodLog,           \* ... the probes that have settled, in order
    moodRes,           \* ... and what it returned, NoResult until it has
    serverUrl,         \* ApiClient.serverUrl
    apiKey,            \* ApiClient.apiKey
    configLoaded,      \* where loadConfig is: "fetching", "parsing", "resolved"
    loadOutcome,       \* how loadConfig ended: "", "loaded", "unavailable"
    waiting,           \* endpoints of the requests awaiting configLoaded
    requests           \* the requests fetch was called for, in order

pageVars == << messages, message, puriraWriting, summarizing, summarizeError,
               connectionError, attachedImage, currentMood, currentExtension,
               assets, history, ops, checks, attaching, starts, timers, polls,
               mounted, event >>

flattenVars == << flattenArg, flattenDone, flattenRes >>

moodVars == << moodArg, moodRound, moodRounds, moodLog, moodRes >>

apiVars == << serverUrl, apiKey, configLoaded, loadOutcome, waiting, requests >>

\* The variables of what is run on its own.
unitVars == << flattenVars, moodVars, apiVars >>

vars == << pageVars, unitVars >>

\* No call exited in the last step.
NoOp ==
    [kind |-> "none", pc |-> "none", messagesBeforeSend |-> 0,
     hadAttachment |-> FALSE, attachmentData |-> Null, text |-> <<>>,
     images |-> <<>>, batch |-> <<>>, i |-> 0, delays |-> 0,
     pre |-> <<>>, resp |-> <<>>, outcome |-> "none", idleAtAccept |-> TRUE,
     err |-> {}]

\* A call as accepted: the locals of its frame (messagesBeforeSend,
\* hadAttachment, attachmentData, text, images, batch = responseMessages,
\* i = index of the message being revealed) and, for the properties, what it
\* saw at acceptance (pre, idleAtAccept), the reply (resp, outcome) and the
\* number of inter-message suspensions it has started (delays).
NewOp(kind) ==
    [NoOp EXCEPT !.kind = kind, !.pc = "call", !.pre = messages,
                 !.outcome = "pending",
                 !.idleAtAccept = (~puriraWriting /\ ~summarizing)]

Observe(name, issued, alert, exited) ==
    [name |-> name, issued |-> issued, alert |-> alert, exited |-> exited,
     timer |-> 0, status |-> ""]

\* The observation of a step of the poll interval with id t; status is the
\* reply's, "" where the step is not a reply.
ObservePoll(name, issued, t, status) ==
    [Observe(name, issued, "", NoOp) EXCEPT !.timer = t, !.status = status]

Remove(s, k) == SubSeq(s, 1, k - 1) \o SubSeq(s, k + 1, Len(s))

Busy == puriraWriting \/ summarizing

\* Variant of UserMessage that drops the image reference.
UserMessageWithoutImage(text, imageFilename) ==
    [role |-> "user", content |-> text, mood |-> "", image_path |-> ""]

\* messages.push({ role: 'user', content: text, image_path: imageFilename })
UserMessage(text, imageFilename) ==
    [role |-> "user", content |-> text, mood |-> "", image_path |-> imageFilename]

PageInit ==
    /\ messages = <<>>
    /\ message = <<>>
    /\ puriraWriting = FALSE
    /\ summarizing = FALSE
    /\ summarizeError = ""
    /\ connectionError = ""
    /\ attachedImage = Null
    /\ currentMood = "normal"
    /\ currentExtension = "png"
    /\ assets = MainAssets
    /\ history = [pc |-> "loading", mood |-> ""]
    /\ ops = <<>>
    /\ checks = 0
    /\ attaching = <<>>
    /\ starts = 0
    /\ timers = {}
    /\ polls = <<>>
    /\ mounted = TRUE
    /\ event = Observe("mount", {"history"}, "", NoOp)

(***************************************************************************)
(* User input that only edits the composer.                                 *)
(***************************************************************************)
\* bind:value={message}; the textarea is disabled while Busy.
TypeText(t) ==
    /\ ~Busy
    /\ message' = t
    /\ event' = Observe("input", {}, "", NoOp)
    /\ UNCHANGED << messages, puriraWriting, summarizing, summarizeError,
                    connectionError, attachedImage, currentMood,
                    currentExtension, assets, history, ops, checks, attaching,
                    starts, timers, polls, mounted, unitVars >>

\* attachImage up to its await of read_file_as_base64: the attach button is
\* disabled while Busy; the user picked img in the dialog.
attachImagePick(img) ==
    /\ ~Busy
    /\ Len(attaching) < MaxAttaching
    /\ attaching' = Append(attaching, img)
    /\ event' = Observe("attachImage", {}, "", NoOp)
    /\ UNCHANGED << messages, message, puriraWriting, summarizing,
                    summarizeError, connectionError, attachedImage, currentMood,
                    currentExtension, assets, history, ops, checks,
                    starts, timers, polls, mounted, unitVars >>

\* attachImage after save_image_to_cache resolved.
attachImageDone(k) ==
    /\ k \in 1..Len(attaching)
    /\ attachedImage' = JSONstringify(attaching[k])
    /\ attaching' = Remove(attaching, k)
    /\ event' = Observe("attachImageDone", {}, "", NoOp)
    /\ UNCHANGED << messages, message, puriraWriting, summarizing,
                    summarizeError, connectionError, currentMood,
                    currentExtension, assets, history, ops, checks,
                    starts, timers, polls, mounted, unitVars >>

\* attachImage's catch: reading or caching the file failed.
attachImageFail(k) ==
    /\ k \in 1..Len(attaching)
    /\ attaching' = Remove(attaching, k)
    /\ event' = Observe("attachImageFail", {}, "attach", NoOp)
    /\ UNCHANGED << messages, message, puriraWriting, summarizing,
                    summarizeError, connectionError, attachedImage, currentMood,
                    currentExtension, assets, history, ops, checks,
                    starts, timers, polls, mounted, unitVars >>

\* The clear button is rendered only while an attachment is pending.
clearAttachment ==
    /\ attachedImage # Null
    /\ attachedImage' = Null
    /\ event' = Observe("clearAttachment", {}, "", NoOp)
    /\ UNCHANGED << messages, message, puriraWriting, summarizing,
                    summarizeError, connectionError, currentMood,
                    currentExtension, assets, history, ops, checks, attaching,
                    starts, timers, polls, mounted, unitVars >>

(***************************************************************************)
(* displayResponseMessages, run inside the call ops[k] (o is its frame as   *)
(* this step leaves it).  name is the observation's name.                   *)
(***************************************************************************)
\* Variant of Finally: a call without the finally block.
FinallySkipped == puriraWriting

\* The caller's finally block.
Finally == FALSE

\* Variant of AfterShown whose loop suspends one message early for the last
\* time.
AfterShownOffByOne(k, o, name) ==
    IF o.i - 1 < Len(o.batch) - 2
    THEN /\ ops' = [ops EXCEPT ![k] = [o EXCEPT !.pc = "delay", !.delays = @ + 1]]
         /\ puriraWriting' = puriraWriting
         /\ event' = Observe(name, {}, "", NoOp)
    ELSE /\ ops' = Remove(ops, k)
         /\ puriraWriting' = Finally
         /\ event' = Observe(name, {}, "", [o EXCEPT !.pc = "done"])

\* After message o.i was shown: tick(), scrollToBottom(), then either the
\* setTimeout suspension or the end of the loop, at which the caller's try
\* block ends and its finally runs.
AfterShown(k, o, name) ==
    IF o.i - 1 < Len(o.batch) - 1
    THEN /\ ops' = [ops EXCEPT ![k] = [o EXCEPT !.pc = "delay", !.delays = @ + 1]]
         /\ puriraWriting' = puriraWriting
         /\ event' = Observe(name, {}, "", NoOp)
    ELSE /\ ops' = Remove(ops, k)
         /\ puriraWriting' = Finally
         /\ event' = Observe(name, {}, "", [o EXCEPT !.pc = "done"])

\* The loop body for message o.i up to its first await that leaves the task.
Show(k, o, name) ==
    /\ messages' = Append(messages, o.batch[o.i])
    /\ IF o.batch[o.i].mood # ""
       THEN /\ ops' = [ops EXCEPT ![k] = [o EXCEPT !.pc = "mood"]]
            /\ puriraWriting' = puriraWriting
            /\ event' = Observe(name, {}, "", NoOp)
       ELSE AfterShown(k, o, name)

displayResponseMessages(k, o, name) ==
    IF o.batch = <<>>
    THEN /\ messages' = messages
         /\ ops' = Remove(ops, k)
         /\ puriraWriting' = Finally
         /\ event' = Observe(name, {}, "", [o EXCEPT !.pc = "done"])
    ELSE Show(k, [o EXCEPT !.i = 1], name)

\* updateMood(msg.mood) resolved inside the loop.
revealMoodDone(k) ==
    /\ k \in 1..Len(ops)
    /\ ops[k].pc = "mood"
    /\ LET r == get_extension(assets, ops[k].batch[ops[k].i].mood)
       IN  /\ currentMood' = r.mood
           /\ currentExtension' = r.extension
    /\ AfterShown(k, ops[k], "reveal")
    /\ UNCHANGED << messages, message, summarizing, summarizeError,
                    connectionError, attachedImage, assets, history, checks,
                    attaching,
                    starts, timers, polls, mounted, unitVars >>

\* The setTimeout(resolve, delay) of the loop fired.
revealDelayDone(k) ==
    /\ k \in 1..Len(ops)
    /\ ops[k].pc = "delay"
    /\ Show(k, [ops[k] EXCEPT !.i = @ + 1], "reveal")
    /\ UNCHANGED << message, summarizing, summarizeError, connectionError,
                    attachedImage, currentMood, currentExtension, assets,
                    history, checks, attaching,
                    starts, timers, polls, mounted, unitVars >>

(***************************************************************************)
(* send                                                                     *)
(***************************************************************************)
\* Variant of SendAccepts that does not read summarizing.
SendAcceptsWhileSummarizing(text) == text # <<>> /\ ~puriraWriting

\* if (!text || puriraWriting || summarizing) return;
SendAccepts(text) == text # <<>> /\ ~puriraWriting /\ ~summarizing

\* messages.slice(0, messagesBeforeSend)
Rollback(o) == Slice0(messages, o.messagesBeforeSend)

\* Variant of Restore: a catch that leaves the attachment as it is.
RestoreSkipped(o) == attachedImage

\* if (hadAttachment) attachedImage = attachmentData;
Restore(o) == IF o.hadAttachment THEN o.attachmentData ELSE attachedImage

\* Variant of SendAlert that reads the status code only.
SendAlertStatusOnly(err) == IF "503" \in err THEN "conflict" ELSE "error"

\* The alert of send's catch.
SendAlert(err) == IF "503" \in err \/ "summarization" \in err THEN "conflict" ELSE "error"

send ==
    LET text == Trim(message)
    IN  IF ~SendAccepts(text)
        THEN /\ event' = Observe("send", {}, "", NoOp)
             /\ UNCHANGED << messages, message, puriraWriting, summarizing,
                             summarizeError, connectionError, attachedImage,
                             currentMood, currentExtension, assets, history,
                             ops, checks, attaching,
                    starts, timers, polls, mounted, unitVars >>
        ELSE LET hadAttachment == attachedImage # Null
                 attachmentData == attachedImage
                 imageFilename ==
                     IF attachedImage # Null THEN JSONparse(attachedImage).filename ELSE ""
                 o == [NewOp("send") EXCEPT
                          !.messagesBeforeSend = Len(messages),
                          !.hadAttachment = hadAttachment,
                          !.attachmentData = attachmentData,
                          !.text = text,
                          !.images = IF hadAttachment /\ attachmentData # Null
                                     THEN << JSONparse(attachmentData) >> ELSE <<>>]
             IN  /\ messages' = Append(messages, UserMessage(text, imageFilename))
                 /\ message' = <<>>
                 /\ attachedImage' = Null
                 /\ puriraWriting' = TRUE
                 /\ ops' = Append(ops, o)
                 /\ event' = Observe("send", {"message"}, "", NoOp)
                 /\ UNCHANGED << summarizing, summarizeError, connectionError,
                                 currentMood, currentExtension, assets, history,
                                 checks, attaching,
                    starts, timers, polls, mounted, unitVars >>

\* api.sendUnifiedMessage resolved with resp.
sendReplied(k, resp) ==
    /\ k \in 1..Len(ops)
    /\ ops[k].kind = "send" /\ ops[k].pc = "call"
    /\ displayResponseMessages(k, [ops[k] EXCEPT !.batch = flattenMessages(resp),
                                                 !.resp = resp, !.outcome = "ok"],
                               "sendReplied")
    /\ UNCHANGED << message, summarizing, summarizeError, connectionError,
                    attachedImage, currentMood, currentExtension, assets,
                    history, checks, attaching,
                    starts, timers, polls, mounted, unitVars >>

\* api.sendUnifiedMessage rejected (or flattenMessages threw on a reply
\* without messages): send's catch, then its finally.
sendFailed(k, err) ==
    /\ k \in 1..Len(ops)
    /\ ops[k].kind = "send" /\ ops[k].pc = "call"
    /\ messages' = Rollback(ops[k])
    /\ attachedImage' = Restore(ops[k])
    /\ puriraWriting' = Finally
    /\ ops' = Remove(ops, k)
    /\ event' = Observe("sendFailed", {}, SendAlert(err),
                        [ops[k] EXCEPT !.pc = "done", !.outcome = "fail",
                                       !.err = err])
    /\ UNCHANGED << message, summarizing, summarizeError, connectionError,
                    currentMood, currentExtension, assets, history, checks,
                    attaching,
                    starts, timers, polls, mounted, unitVars >>

(***************************************************************************)
(* The initial history load of onMount.                                     *)
(***************************************************************************)
historyLoaded(resp) ==
    /\ history.pc = "loading"
    /\ messages' = flattenMessages(resp)
    /\ LET lastMood == FindLastMood(messages')
       IN  history' = IF lastMood # "" THEN [pc |-> "mood", mood |-> lastMood]
                      ELSE [pc |-> "done", mood |-> ""]
    /\ event' = Observe("historyLoaded", {}, "", NoOp)
    /\ UNCHANGED << message, puriraWriting, summarizing, summarizeError,
                    connectionError, attachedImage, currentMood,
                    currentExtension, assets, ops, checks, attaching,
                    starts, timers, polls, mounted, unitVars >>

\* updateMood(lastMoodMessage.mood) resolved.
historyMoodDone ==
    /\ history.pc = "mood"
    /\ LET r == get_extension(assets, history.mood)
       IN  /\ currentMood' = r.mood
           /\ currentExtension' = r.extension
    /\ history' = [pc |-> "done", mood |-> ""]
    /\ event' = Observe("historyMoodDone", {}, "", NoOp)
    /\ UNCHANGED << messages, message, puriraWriting, summarizing,
                    summarizeError, connectionError, attachedImage, assets,
                    ops, checks, attaching,
                    starts, timers, polls, mounted, unitVars >>

historyFailed ==
    /\ history.pc = "loading"
    /\ connectionError' = "Could not get messages"
    /\ history' = [pc |-> "failed", mood |-> ""]
    /\ event' = Observe("historyFailed", {}, "", NoOp)
    /\ UNCHANGED << messages, message, puriraWriting, summarizing,
                    summarizeError, attachedImage, currentMood,
                    currentExtension, assets, ops, checks, attaching,
                    starts, timers, polls, mounted, unitVars >>

(***************************************************************************)
(* The calls that share send's busy flag: the menu's proactive send, the    *)
(* timer's proactive send, web search and reminisce.                        *)
(***************************************************************************)
\* The frame of every variable these calls leave alone at acceptance,
\* refusal and exit.
CallFrame ==
    UNCHANGED << messages, message, summarizing, summarizeError,
                 connectionError, attachedImage, currentMood, currentExtension,
                 assets, history, attaching, starts, timers, polls, mounted, unitVars >>

\* puriraWriting = true; try { await api.<endpoint>() ...
Begin(kind, name, endpoint) ==
    /\ puriraWriting' = TRUE
    /\ ops' = Append(ops, NewOp(kind))
    /\ event' = Observe(name, {endpoint}, "", NoOp)

\* The early return of a call that found the session busy.
Refuse(name, alert) ==
    /\ event' = Observe(name, {}, alert, NoOp)
    /\ UNCHANGED << puriraWriting, ops >>

\* The catch (alert is "" where the source only logs) and finally of a call.
ExitWith(k, name, alert, outcome, err) ==
    /\ ops' = Remove(ops, k)
    /\ puriraWriting' = Finally
    /\ event' = Observe(name, {}, alert,
                        [ops[k] EXCEPT !.pc = "done", !.outcome = outcome,
                                       !.err = err])

Exit(k, name, alert, outcome) == ExitWith(k, name, alert, outcome, {})

sendProactiveMessage ==
    /\ IF puriraWriting \/ summarizing
       THEN Refuse("sendProactiveMessage", "busy")
       ELSE Begin("manual", "sendProactiveMessage", "proactive-message")
    /\ checks' = checks
    /\ CallFrame

\* Variant of sendProactiveMessageAuto without its early return.
sendProactiveMessageAutoUnguarded(name) ==
    Begin("auto", name, "proactive-message")

\* Variant of sendProactiveMessageAuto whose early return does not read
\* summarizing.
sendProactiveMessageAutoWhileSummarizing(name) ==
    IF puriraWriting
    THEN Refuse(name, "")
    ELSE Begin("auto", name, "proactive-message")

sendProactiveMessageAuto(name) ==
    IF puriraWriting \/ summarizing
    THEN Refuse(name, "")
    ELSE Begin("auto", name, "proactive-message")

triggerWebSearch ==
    /\ IF puriraWriting \/ summarizing
       THEN Refuse("triggerWebSearch", "busy")
       ELSE Begin("web", "triggerWebSearch", "web-search")
    /\ checks' = checks
    /\ CallFrame

triggerReminisce ==
    /\ IF puriraWriting \/ summarizing
       THEN Refuse("triggerReminisce", "busy")
       ELSE Begin("reminisce", "triggerReminisce", "reminisce")
    /\ checks' = checks
    /\ CallFrame

\* Variant of proactiveReplied that consumes the pending attachment.
proactiveRepliedClearsAttachment(k, resp) ==
    /\ k \in 1..Len(ops)
    /\ ops[k].kind \in {"manual", "auto"} /\ ops[k].pc = "call"
    /\ displayResponseMessages(k, [ops[k] EXCEPT !.batch = flattenMessages(resp),
                                                 !.resp = resp, !.outcome = "ok"],
                               "proactiveReplied")
    /\ attachedImage' = Null
    /\ UNCHANGED << message, summarizing, summarizeError, connectionError,
                    currentMood, currentExtension, assets,
                    history, checks, attaching, starts, timers, polls, mounted, unitVars >>

\* api.sendProactiveMessage resolved with resp, in either proactive send.
proactiveReplied(k, resp) ==
    /\ k \in 1..Len(ops)
    /\ ops[k].kind \in {"manual", "auto"} /\ ops[k].pc = "call"
    /\ displayResponseMessages(k, [ops[k] EXCEPT !.batch = flattenMessages(resp),
                                                 !.resp = resp, !.outcome = "ok"],
                               "proactiveReplied")
    /\ UNCHANGED << message, summarizing, summarizeError, connectionError,
                    attachedImage, currentMood, currentExtension, assets,
                    history, checks, attaching, starts, timers, polls, mounted, unitVars >>

\* Variant of proactiveFailed in which both catches alert.
proactiveFailedAlerts(k) ==
    /\ k \in 1..Len(ops)
    /\ ops[k].kind \in {"manual", "auto"} /\ ops[k].pc = "call"
    /\ Exit(k, "proactiveFailed", "error", "fail")
    /\ checks' = checks
    /\ CallFrame

\* sendProactiveMessage's catch alerts; sendProactiveMessageAuto's only logs.
proactiveFailed(k) ==
    /\ k \in 1..Len(ops)
    /\ ops[k].kind \in {"manual", "auto"} /\ ops[k].pc = "call"
    /\ Exit(k, "proactiveFailed", IF ops[k].kind = "manual" THEN "error" ELSE "", "fail")
    /\ checks' = checks
    /\ CallFrame

\* Variant of backgroundReplied that shows a returned message.
backgroundRepliedShown(k) ==
    /\ k \in 1..Len(ops)
    /\ ops[k].kind \in {"web", "reminisce"} /\ ops[k].pc = "call"
    /\ Exit(k, "backgroundReplied", "", "ok")
    /\ messages' = Append(messages, [role |-> "assistant", content |-> <<"a">>,
                                     mood |-> "", image_path |-> ""])
    /\ UNCHANGED << message, summarizing, summarizeError, connectionError,
                    attachedImage, currentMood, currentExtension, assets,
                    history, checks, attaching, starts, timers, polls, mounted,
                    unitVars >>

\* api.triggerWebSearch or api.triggerReminisce resolved: the messages it
\* returned are dropped.
backgroundReplied(k) ==
    /\ k \in 1..Len(ops)
    /\ ops[k].kind \in {"web", "reminisce"} /\ ops[k].pc = "call"
    /\ Exit(k, "backgroundReplied", "", "ok")
    /\ checks' = checks
    /\ CallFrame

\* The alert of triggerReminisce's catch.
ReminisceAlert(err) ==
    IF "Not enough messages" \in err THEN "insufficient" ELSE "error"

backgroundFailed(k, err) ==
    /\ k \in 1..Len(ops)
    /\ ops[k].kind \in {"web", "reminisce"} /\ ops[k].pc = "call"
    /\ ExitWith(k, "backgroundFailed",
                IF ops[k].kind = "reminisce" THEN ReminisceAlert(err) ELSE "error",
                "fail", err)
    /\ checks' = checks
    /\ CallFrame

(***************************************************************************)
(* The proactive-check interval of onMount.                                 *)
(***************************************************************************)
\* Variant of proactiveCheckInterval without its busy test.
proactiveCheckIntervalUnguarded ==
    /\ mounted
    /\ checks < MaxChecks
    /\ checks' = checks + 1
    /\ event' = Observe("proactiveCheckInterval", {"should-send"}, "", NoOp)
    /\ UNCHANGED << puriraWriting, ops >>
    /\ CallFrame

\* The interval fired: the callback up to its await of the should-send query.
proactiveCheckInterval ==
    /\ mounted
    /\ IF puriraWriting \/ summarizing
       THEN /\ checks' = checks
            /\ event' = Observe("proactiveCheckInterval", {}, "", NoOp)
       ELSE /\ checks < MaxChecks
            /\ checks' = checks + 1
            /\ event' = Observe("proactiveCheckInterval", {"should-send"}, "", NoOp)
    /\ UNCHANGED << puriraWriting, ops >>
    /\ CallFrame

\* api.shouldSendProactiveMessage resolved with shouldSend.
checkReplied(shouldSend) ==
    /\ checks > 0
    /\ checks' = checks - 1
    /\ IF shouldSend
       THEN sendProactiveMessageAuto("sendProactiveMessageAuto")
       ELSE Refuse("checkReplied", "")
    /\ CallFrame

\* api.shouldSendProactiveMessage rejected: the callback's catch logs it.
checkFailed ==
    /\ checks > 0
    /\ checks' = checks - 1
    /\ Refuse("checkFailed", "")
    /\ CallFrame

\* The cleanup onMount returned: clearInterval(proactiveCheckInterval).
onUnmount ==
    /\ mounted
    /\ mounted' = FALSE
    /\ event' = Observe("onUnmount", {}, "", NoOp)
    /\ UNCHANGED << messages, message, puriraWriting, summarizing,
                    summarizeError, connectionError, attachedImage, currentMood,
                    currentExtension, assets, history, ops, checks, attaching,
                    starts, timers, polls, unitVars >>

(***************************************************************************)
(* startSummarization and its poll interval.                                *)
(***************************************************************************)
SummFrame ==
    UNCHANGED << messages, message, puriraWriting, connectionError,
                 attachedImage, currentMood, currentExtension, assets, history,
                 ops, checks, attaching, mounted, unitVars >>

\* Ids setInterval still can return: the runtime never hands out an id that
\* a live callback holds.
TimerIds == 1..(MaxSummarizations + MaxPolls)
FreeTimerIds == { t \in TimerIds : t \notin timers /\ \A q \in 1..Len(polls) : polls[q] # t }

\* The menu item is disabled while summarizing.
startSummarization ==
    /\ ~summarizing
    /\ starts + Cardinality(timers) < MaxSummarizations
    /\ summarizing' = TRUE
    /\ summarizeError' = ""
    /\ starts' = starts + 1
    /\ event' = Observe("startSummarization", {"summarize"}, "", NoOp)
    /\ UNCHANGED << timers, polls >>
    /\ SummFrame

\* Variant of startReplied that sets no poll interval.
startRepliedWithoutPolling ==
    /\ starts > 0
    /\ starts' = starts - 1
    /\ event' = Observe("startReplied", {}, "", NoOp)
    /\ UNCHANGED << summarizing, summarizeError, timers, polls >>
    /\ SummFrame

\* api.startSummarization resolved: setInterval(..., 2000).
startReplied ==
    /\ starts > 0
    /\ starts' = starts - 1
    /\ \E t \in FreeTimerIds :
          /\ \A u \in FreeTimerIds : t <= u
          /\ timers' = timers \cup {t}
    /\ event' = Observe("startReplied", {}, "", NoOp)
    /\ UNCHANGED << summarizing, summarizeError, polls >>
    /\ SummFrame

\* Variant of startFailed whose catch leaves a poll interval behind.
startFailedStartsPolling ==
    /\ starts > 0
    /\ starts' = starts - 1
    /\ summarizing' = FALSE
    /\ summarizeError' = "Failed to start summarization"
    /\ \E t \in FreeTimerIds :
          /\ \A u \in FreeTimerIds : t <= u
          /\ timers' = timers \cup {t}
    /\ event' = Observe("startFailed", {}, "", NoOp)
    /\ UNCHANGED polls
    /\ SummFrame

\* api.startSummarization rejected: the outer catch.
startFailed ==
    /\ starts > 0
    /\ starts' = starts - 1
    /\ summarizing' = FALSE
    /\ summarizeError' = "Failed to start summarization"
    /\ event' = Observe("startFailed", {}, "", NoOp)
    /\ UNCHANGED << timers, polls >>
    /\ SummFrame

\* The poll interval t fired: the callback up to its await.
pollInterval(t) ==
    /\ t \in timers
    /\ Len(polls) < MaxPolls
    /\ polls' = Append(polls, t)
    /\ event' = ObservePoll("pollInterval", {"status"}, t, "")
    /\ UNCHANGED << summarizing, summarizeError, starts, timers >>
    /\ SummFrame

\* Variant of pollReplied that clears the flag and not the interval.
pollRepliedKeepsTimer(q, status) ==
    /\ q \in 1..Len(polls)
    /\ polls' = Remove(polls, q)
    /\ summarizing' = (summarizing /\ status # "idle")
    /\ event' = ObservePoll("pollReplied", {}, polls[q], status)
    /\ UNCHANGED << timers, summarizeError, starts >>
    /\ SummFrame

\* api.getSummarizationStatus resolved for the query polls[q].
pollReplied(q, status) ==
    /\ q \in 1..Len(polls)
    /\ polls' = Remove(polls, q)
    /\ IF status = "idle"
       THEN /\ timers' = timers \ {polls[q]}
            /\ summarizing' = FALSE
       ELSE UNCHANGED << timers, summarizing >>
    /\ event' = ObservePoll("pollReplied", {}, polls[q], status)
    /\ UNCHANGED << summarizeError, starts >>
    /\ SummFrame

\* Variant of pollFailed whose catch only logs.
pollFailedSilent(q) ==
    /\ q \in 1..Len(polls)
    /\ polls' = Remove(polls, q)
    /\ timers' = timers \ {polls[q]}
    /\ summarizing' = FALSE
    /\ event' = ObservePoll("pollFailed", {}, polls[q], "")
    /\ UNCHANGED << summarizeError, starts >>
    /\ SummFrame

\* api.getSummarizationStatus rejected: the inner catch.
pollFailed(q) ==
    /\ q \in 1..Len(polls)
    /\ polls' = Remove(polls, q)
    /\ timers' = timers \ {polls[q]}
    /\ summarizing' = FALSE
    /\ summarizeError' = "Failed to check status"
    /\ event' = ObservePoll("pollFailed", {}, polls[q], "")
    /\ UNCHANGED starts
    /\ SummFrame

\* The error banner's close button.
dismissSummarizeError ==
    /\ summarizeError # ""
    /\ summarizeError' = ""
    /\ event' = Observe("dismissSummarizeError", {}, "", NoOp)
    /\ UNCHANGED << summarizing, starts, timers, polls >>
    /\ SummFrame

\* Values of SummarizeResponse.status.
Statuses == { "idle", "running" }

(***************************************************************************)
(* Specifications.  The page's handlers meet only in a few variables, so    *)
(* each group of properties is checked under the handlers that write what   *)
(* it reads; every handler keeps the definition above in each of them.      *)
(***************************************************************************)
\* The composer and the initial history load.
ComposerNext ==
    \/ \E t \in Texts : TypeText(t)
    \/ \E img \in Images : attachImagePick(img)
    \/ \E k \in 1..Len(attaching) : attachImageDone(k)
    \/ \E k \in 1..Len(attaching) : attachImageFail(k)
    \/ clearAttachment

HistoryNext ==
    \/ \E resp \in HistoryResponses : historyLoaded(resp)
    \/ historyMoodDone
    \/ historyFailed

\* send and the reveal of its reply.
SendNext ==
    \/ (Len(messages) < MaxTimeline /\ send)
    \/ \E k \in 1..Len(ops), resp \in ChatResponses : sendReplied(k, resp)
    \/ \E k \in 1..Len(ops), err \in SendErrors : sendFailed(k, err)
    \/ \E k \in 1..Len(ops) : revealMoodDone(k)
    \/ \E k \in 1..Len(ops) : revealDelayDone(k)

\* The proactive-check interval and the automatic proactive send.
CheckNext ==
    \/ proactiveCheckInterval
    \/ \E b \in BOOLEAN : ((b => Len(messages) < MaxTimeline) /\ checkReplied(b))
    \/ checkFailed
    \/ \E k \in 1..Len(ops), resp \in ChatResponses : proactiveReplied(k, resp)
    \/ \E k \in 1..Len(ops) : proactiveFailed(k)

\* The menu's calls.
MenuNext ==
    \/ (Len(messages) < MaxTimeline /\ sendProactiveMessage)
    \/ triggerWebSearch
    \/ triggerReminisce
    \/ \E k \in 1..Len(ops) : backgroundReplied(k)
    \/ \E k \in 1..Len(ops), err \in ReminisceErrors : backgroundFailed(k, err)

\* A summarization up to the reply to its start request.
StartNext ==
    \/ startSummarization
    \/ startReplied
    \/ startFailed

\* The poll interval and the error banner.
PollNext ==
    \/ \E t \in timers : pollInterval(t)
    \/ \E q \in 1..Len(polls), st \in Statuses : pollReplied(q, st)
    \/ \E q \in 1..Len(polls) : pollFailed(q)
    \/ dismissSummarizeError

NoFlatten == flattenArg = <<>> /\ flattenDone = FALSE /\ flattenRes = <<>>

\* get_extension has not returned.
NoResult == [mood |-> "", extension |-> ""]

\* No call of get_extension on its own.
NoMood ==
    /\ moodArg = ""
    /\ moodRound = [mood |-> "", k |-> 0]
    /\ moodRounds = 0
    /\ moodLog = <<>>
    /\ moodRes = NoResult

\* new ApiClient(): the defaults, and loadConfig at its fetch of config.json.
ApiInit ==
    /\ serverUrl = "http://localhost:3000"
    /\ apiKey = "dev-key"
    /\ configLoaded = "fetching"
    /\ loadOutcome = ""
    /\ waiting = <<>>
    /\ requests = <<>>

Init == PageInit /\ NoFlatten /\ NoMood /\ ApiInit

\* The exchange of a user message, with everything that can write the
\* timeline, the pending attachment or the busy flags meanwhile.
Next ==
    \/ ComposerNext
    \/ HistoryNext
    \/ SendNext
    \/ CheckNext
    \/ startSummarization
    \/ startFailed

Spec == Init /\ [][Next]_vars

\* Every call that sets the busy flag, with the proactive timer and the
\* summarization flag that its guard reads.
CallsNext ==
    \/ \E t \in Texts : TypeText(t)
    \/ HistoryNext
    \/ SendNext
    \/ CheckNext
    \/ MenuNext
    \/ startSummarization
    \/ startFailed

CallsSpec == Init /\ [][CallsNext]_vars

\* A step that a pending remote call or a pending timer of a call takes when
\* it settles.
Settles ==
    \/ \E k \in 1..Len(ops), resp \in ChatResponses : sendReplied(k, resp)
    \/ \E k \in 1..Len(ops), err \in SendErrors : sendFailed(k, err)
    \/ \E k \in 1..Len(ops), resp \in ChatResponses : proactiveReplied(k, resp)
    \/ \E k \in 1..Len(ops) : proactiveFailed(k)
    \/ \E k \in 1..Len(ops) : backgroundReplied(k)
    \/ \E k \in 1..Len(ops), err \in ReminisceErrors : backgroundFailed(k, err)
    \/ \E k \in 1..Len(ops) : revealMoodDone(k)
    \/ \E k \in 1..Len(ops) : revealDelayDone(k)

\* CallsSpec where every remote call returns or fails and every timer and
\* asset probe of a reveal completes.
CallsLiveSpec == CallsSpec /\ WF_vars(Settles)

\* The summarization and both periodic tasks, up to and after the cleanup
\* that onMount returned; the user's input ends with the page.
SummNext ==
    \/ (mounted /\ startSummarization)
    \/ startReplied
    \/ startFailed
    \/ \E t \in timers : pollInterval(t)
    \/ \E q \in 1..Len(polls), st \in Statuses : pollReplied(q, st)
    \/ \E q \in 1..Len(polls) : pollFailed(q)
    \/ (mounted /\ dismissSummarizeError)
    \/ onUnmount
    \/ HistoryNext
    \/ CheckNext
    \/ \E k \in 1..Len(ops) : revealMoodDone(k)
    \/ \E k \in 1..Len(ops) : revealDelayDone(k)

SummSpec == Init /\ [][SummNext]_vars

\* Replies whose moods sit on the first message, on none, and on a mood
\* without assets followed by one with assets.
RevealResponses ==
    { << ApiMsg("assistant", << <<"a">> >>, "excited", ""),
         ApiMsg("assistant", << <<"b">> >>, "", "") >>,
      << ApiMsg("assistant", << <<"a">> >>, "", ""),
         ApiMsg("assistant", << <<"b">> >>, "", "") >>,
      << ApiMsg("assistant", << <<"a">> >>, "sad", ""),
         ApiMsg("assistant", << <<"b">> >>, "excited", "") >> }

\* The reveal of a reply to send or to the menu's proactive send, with the
\* history load, which resolves a mood of its own.
RevealNext ==
    \/ \E t \in Texts : TypeText(t)
    \/ HistoryNext
    \/ (Len(messages) < MaxTimeline /\ send)
    \/ (Len(messages) < MaxTimeline /\ sendProactiveMessage)
    \/ \E k \in 1..Len(ops), resp \in RevealResponses : sendReplied(k, resp)
    \/ \E k \in 1..Len(ops), resp \in RevealResponses : proactiveReplied(k, resp)
    \/ \E k \in 1..Len(ops) : revealMoodDone(k)
    \/ \E k \in 1..Len(ops) : revealDelayDone(k)

RevealSpec == Init /\ [][RevealNext]_vars

\* A status query of the poll interval t, which is still set, answers "idle"
\* or fails.
PollEnds(t) ==
    \E q \in 1..Len(polls) :
        /\ polls[q] = t
        /\ t \in timers
        /\ (pollReplied(q, "idle") \/ pollFailed(q))

\* Every start request and every status query settles, an interval that is
\* set keeps firing (setInterval fires whatever is pending: a tick that the
\* cap on pending queries holds back is taken once a reply has made room),
\* and the server does not answer "running" for ever.
SummFairness ==
    /\ WF_vars(startReplied \/ startFailed)
    /\ WF_vars(\E q \in 1..Len(polls), st \in Statuses : pollReplied(q, st))
    /\ \A t \in TimerIds : SF_vars(pollInterval(t)) /\ SF_vars(PollEnds(t))

SummLiveSpec == SummSpec /\ SummFairness

(***************************************************************************)
(* flattenMessages on its own: one call on each input.                      *)
(***************************************************************************)
\* Messages per input list.
MaxApiMessages == 2

Segments == << <<"x">>, <<"y">>, <<"z">> >>

FlattenMessages ==
    { ApiMsg(role, SubSeq(Segments, 1, n), mood, image) :
        role \in {"user", "assistant"}, n \in 0..Len(Segments),
        mood \in {"", "excited"}, image \in {"", "7.png"} }

FlattenInputs ==
    UNION { [1..n -> FlattenMessages] : n \in 0..MaxApiMessages }

FlattenInit ==
    /\ PageInit
    /\ NoMood
    /\ ApiInit
    /\ flattenArg \in FlattenInputs
    /\ flattenDone = FALSE
    /\ flattenRes = <<>>

flattenCall ==
    /\ ~flattenDone
    /\ flattenRes' = flattenMessages(flattenArg)
    /\ flattenDone' = TRUE
    /\ UNCHANGED << flattenArg, pageVars, moodVars, apiVars >>

FlattenSpec == FlattenInit /\ [][flattenCall]_vars

(***************************************************************************)
(* get_extension on its own, one probe at a time: each fetch is an await,   *)
(* and what it answers is the environment's choice when it settles.         *)
(***************************************************************************)
\* The extensions one call probes, in its order: mp4, then imageFormats.
ProbeOrder == << "mp4" >> \o imageFormats

\* Variant of Fallback in which "normal" falls back too.
FallbackAlways(mood) == TRUE

\* if (mood !== 'normal') return await get_extension('normal');
Fallback(mood) == mood # "normal"

\* Moods asked for: one with a fallback round, and "normal".
Moods == { "excited", "normal" }

\* A HEAD request answers ok, answers not ok, or rejects.
ProbeOutcomes == { "ok", "missing", "throws" }

MoodInit ==
    /\ PageInit
    /\ NoFlatten
    /\ ApiInit
    /\ moodArg \in Moods
    /\ moodRound = [mood |-> moodArg, k |-> 1]
    /\ moodRounds = 1
    /\ moodLog = <<>>
    /\ moodRes = NoResult

\* The pending fetch settled with outcome: the call up to its next fetch or
\* its return (a fallback call runs to its first fetch in the same step).
probeSettled(outcome) ==
    /\ moodRes = NoResult
    /\ moodLog' = Append(moodLog, [mood |-> moodRound.mood,
                                   extension |-> ProbeOrder[moodRound.k],
                                   outcome |-> outcome])
    /\ IF outcome = "ok"
       THEN /\ moodRes' = [mood |-> moodRound.mood,
                           extension |-> ProbeOrder[moodRound.k]]
            /\ UNCHANGED << moodRound, moodRounds >>
       ELSE IF moodRound.k < Len(ProbeOrder)
       THEN /\ moodRound' = [moodRound EXCEPT !.k = @ + 1]
            /\ UNCHANGED << moodRes, moodRounds >>
       ELSE IF Fallback(moodRound.mood)
       THEN /\ moodRound' = [mood |-> "normal", k |-> 1]
            /\ moodRounds' = moodRounds + 1
            /\ UNCHANGED moodRes
       ELSE /\ moodRes' = [mood |-> "normal", extension |-> "png"]
            /\ UNCHANGED << moodRound, moodRounds >>
    /\ UNCHANGED << moodArg, pageVars, flattenVars, apiVars >>

probeReplied(ok) == probeSettled(IF ok THEN "ok" ELSE "missing")

probeFailed == probeSettled("throws")

MoodNext ==
    \/ \E ok \in BOOLEAN : probeReplied(ok)
    \/ probeFailed

\* Every fetch settles.
MoodSpec == MoodInit /\ [][MoodNext]_vars /\ WF_vars(MoodNext)

(***************************************************************************)
(* ApiClient (src/lib/api.ts) on its own: loadConfig and the requests that  *)
(* await it.  A continuation of an await on configLoaded runs in the        *)
(* microtasks of the step that resolves it, or of the call if it is         *)
(* resolved already.                                                        *)
(***************************************************************************)
\* Calls of request in one run.
MaxRequests == 3

\* What a template literal prints for a field the config does not have.
Undefined == "undefined"

\* What config.json can hold.
Configs ==
    { [serverUrl |-> "https://purira.example", apiKey |-> "secret"],
      [serverUrl |-> "https://purira.example", apiKey |-> Undefined] }

Endpoints == { "/api/history", "/api/message" }

\* fetch(`${serverUrl}${endpoint}`, {headers: {Authorization: `Bearer ${apiKey}`}})
Fetch(endpoint) ==
    [endpoint |-> endpoint, url |-> << serverUrl', endpoint >>,
     authorization |-> << "Bearer", apiKey' >>]

\* loadConfig returned: configLoaded resolves and every request that awaits
\* it goes on to its fetch, in the order of the calls.
Resolve(outcome) ==
    /\ configLoaded' = "resolved"
    /\ loadOutcome' = outcome
    /\ requests' = requests \o [i \in 1..Len(waiting) |-> Fetch(waiting[i])]
    /\ waiting' = <<>>

ApiFrame ==
    UNCHANGED << messages, message, puriraWriting, summarizing, summarizeError,
                 connectionError, attachedImage, currentMood, currentExtension,
                 assets, history, ops, checks, attaching, starts, timers, polls,
                 mounted, flattenVars, moodVars >>

\* Variant of request without its await of configLoaded.
requestUnawaited(endpoint) ==
    /\ Len(waiting) + Len(requests) < MaxRequests
    /\ UNCHANGED << serverUrl, apiKey, configLoaded, loadOutcome, waiting >>
    /\ requests' = Append(requests, Fetch(endpoint))
    /\ event' = Observe("request", {endpoint}, "", NoOp)
    /\ ApiFrame

\* request(endpoint) up to its fetch, or to its await of configLoaded.
request(endpoint) ==
    /\ Len(waiting) + Len(requests) < MaxRequests
    /\ UNCHANGED << serverUrl, apiKey, configLoaded, loadOutcome >>
    /\ IF configLoaded = "resolved"
       THEN /\ requests' = Append(requests, Fetch(endpoint))
            /\ waiting' = waiting
            /\ event' = Observe("request", {endpoint}, "", NoOp)
       ELSE /\ waiting' = Append(waiting, endpoint)
            /\ requests' = requests
            /\ event' = Observe("request", {}, "", NoOp)
    /\ ApiFrame

\* fetch('/config.json') resolved.
configFetchReplied(ok) ==
    /\ configLoaded = "fetching"
    /\ UNCHANGED << serverUrl, apiKey >>
    /\ IF ok
       THEN /\ configLoaded' = "parsing"
            /\ UNCHANGED << loadOutcome, waiting, requests >>
       ELSE Resolve("unavailable")
    /\ event' = Observe("configFetchReplied", {}, "", NoOp)
    /\ ApiFrame

\* fetch('/config.json') rejected: the catch warns on the console.
configFetchFailed ==
    /\ configLoaded = "fetching"
    /\ UNCHANGED << serverUrl, apiKey >>
    /\ Resolve("unavailable")
    /\ event' = Observe("configFetchFailed", {}, "", NoOp)
    /\ ApiFrame

\* response.json() resolved with config.
configParsed(config) ==
    /\ configLoaded = "parsing"
    /\ serverUrl' = config.serverUrl
    /\ apiKey' = config.apiKey
    /\ Resolve("loaded")
    /\ event' = Observe("configParsed", {}, "", NoOp)
    /\ ApiFrame

\* response.json() rejected: the catch warns on the console.
configParseFailed ==
    /\ configLoaded = "parsing"
    /\ UNCHANGED << serverUrl, apiKey >>
    /\ Resolve("unavailable")
    /\ event' = Observe("configParseFailed", {}, "", NoOp)
    /\ ApiFrame

ApiNext ==
    \/ \E endpoint \in Endpoints : request(endpoint)
    \/ \E ok \in BOOLEAN : configFetchReplied(ok)
    \/ configFetchFailed
    \/ \E config \in Configs : configParsed(config)
    \/ configParseFailed

ApiSpec == Init /\ [][ApiNext]_vars

(***************************************************************************)
(* Properties.                                                              *)
(***************************************************************************)
\* The call that exited in the last step, if one did.
Exited == event.exited
SendSucceeded == Exited.kind = "send" /\ Exited.outcome = "ok"
SendDidFail == Exited.kind = "send" /\ Exited.outcome = "fail"

\* C1: when a send whose remote call succeeded has finished, the timeline is
\* the timeline of its acceptance, then the user message with the trimmed
\* text, then flatten(response) in order.
C1_SuccessfulSendAppends ==
    SendSucceeded =>
        LET n == Len(Exited.pre)
            f == flattenMessages(Exited.resp)
        IN  /\ Len(messages) = n + 1 + Len(f)
            /\ SubSeq(messages, 1, n) = Exited.pre
            /\ messages[n + 1].role = "user"
            /\ messages[n + 1].content = Exited.text
            /\ SubSeq(messages, n + 2, Len(messages)) = f

\* C2: when a send that failed has finished, the timeline is as long as it
\* was at the send's entry.
C2_FailedSendRestoresLength ==
    SendDidFail => Len(messages) = Exited.messagesBeforeSend

\* C3 as stated: a failed send that had consumed an attachment leaves that
\* attachment pending, and a successful send leaves none pending.
C3_EmptyAfterSuccess ==
    /\ (SendDidFail /\ Exited.hadAttachment) =>
           (attachedImage # Null /\ attachedImage = Exited.attachmentData)
    /\ SendSucceeded => attachedImage = Null

SendInFlight == \E k \in 1..Len(ops) : ops[k].kind = "send"

\* C3 amended: a failed send that had consumed an attachment leaves exactly
\* that attachment pending (same filename, same data); from the acceptance of
\* a send to its exit nothing but that restoring and the completion of an
\* attachImage call makes the pending attachment non-empty, and the exit of a
\* successful send leaves the pending attachment as it is.
C3_RestoredOnFailureOnly ==
    /\ [](SendDidFail /\ Exited.hadAttachment =>
              /\ attachedImage # Null
              /\ JSONparse(attachedImage) = JSONparse(Exited.attachmentData))
    /\ [][(SendInFlight /\ attachedImage' # attachedImage /\ attachedImage' # Null) =>
              \/ event'.name = "attachImageDone"
              \/ /\ event'.exited.kind = "send"
                 /\ event'.exited.outcome = "fail"
                 /\ event'.exited.hadAttachment]_vars

C3_Witness ==
    /\ SendDidFail
    /\ Exited.hadAttachment
    /\ attachedImage = JSONstringify([filename |-> "2.jpg", data |-> "BBBB"])

\* C4: a call that has set the busy flag clears it when it exits, whatever
\* the outcome of its remote call; the flag is set only while a call is
\* between acceptance and exit, and where remote calls and timers settle a
\* set flag is cleared eventually.
C4_BusyFlagCleared ==
    /\ [](Exited.kind # "none" => ~puriraWriting)
    /\ [](puriraWriting => ops # <<>>)
    /\ puriraWriting ~> ~puriraWriting

C4_Witness ==
    /\ Exited.kind = "reminisce"
    /\ Exited.outcome = "fail"
    /\ ~puriraWriting

\* C5: a send called with text that trims to nothing, or while either busy
\* flag is set, changes neither the timeline, the pending attachment nor the
\* flags, and issues no request.
C5_RefusedSendIsNoOp ==
    [][(event'.name = "send" /\ (Trim(message) = <<>> \/ puriraWriting \/ summarizing)) =>
          /\ UNCHANGED << messages, attachedImage, puriraWriting, summarizing, ops >>
          /\ event'.issued = {}]_vars

C5_Witness ==
    /\ event.name = "send"
    /\ event.issued = {}
    /\ summarizing
    /\ Trim(message) # <<>>

\* C6: at most one call is between acceptance and exit, and every call was
\* accepted with both busy flags clear.
C6_OneCallAtATime ==
    /\ Len(ops) <= 1
    /\ \A k \in 1..Len(ops) : ops[k].idleAtAccept

C6_Witness ==
    /\ Len(ops) = 1
    /\ ops[1].kind = "send"
    /\ event.name = "sendProactiveMessageAuto"
    /\ event.issued = {}

\* C7: a proactive-check tick that finds either busy flag set issues no
\* request: no should-send query becomes pending and no call is started.
C7_BusyTickIssuesNothing ==
    [][(event'.name = "proactiveCheckInterval" /\ (puriraWriting \/ summarizing)) =>
          /\ event'.issued = {}
          /\ UNCHANGED << checks, ops >>]_vars

C7_Witness ==
    /\ event.name = "proactiveCheckInterval"
    /\ event.issued = {}
    /\ puriraWriting
    /\ ~summarizing

\* The frame of call k after this step: in ops, or exited.
After(k) == IF Len(ops') = Len(ops) THEN ops'[k] ELSE event'.exited

\* C8: a reveal appends its messages in input order, message i + 1 only
\* after the suspension that follows message i; a suspension starts only
\* after the append of the message it follows and never after the last one,
\* so a batch of n messages is revealed with max(0, n - 1) suspensions.
C8_RevealInOrder ==
    /\ [](\A k \in 1..Len(ops) :
              ops[k].pc \in {"mood", "delay"} =>
                  /\ ops[k].i \in 1..Len(ops[k].batch)
                  /\ ops[k].pc = "delay" => ops[k].i < Len(ops[k].batch)
                  /\ ops[k].delays = IF ops[k].pc = "delay" THEN ops[k].i ELSE ops[k].i - 1)
    /\ [](Exited.outcome = "ok" /\ Exited.kind \in {"send", "manual", "auto"} =>
              /\ Exited.i = Len(Exited.batch)
              /\ Exited.delays = IF Exited.batch = <<>> THEN 0 ELSE Len(Exited.batch) - 1)
    /\ [][\A k \in 1..Len(ops) :
              (Len(ops') <= Len(ops) /\ After(k).i # ops[k].i) =>
                  /\ After(k).i = ops[k].i + 1
                  /\ ops[k].i >= 1 => ops[k].pc = "delay"
                  /\ messages' = Append(messages, After(k).batch[After(k).i])]_vars

C8_Witness ==
    /\ SendSucceeded
    /\ Len(Exited.batch) = 2
    /\ Exited.delays = 1

\* Display messages that message j of flattenArg contributes, by the rule.
Contribution(j) ==
    IF flattenArg[j].image_path # "" /\ Len(flattenArg[j].content_split) >= 2
    THEN 1 ELSE Len(flattenArg[j].content_split)

RECURSIVE Offset(_)
\* Display messages contributed by the messages before message j.
Offset(j) == IF j = 1 THEN 0 ELSE Offset(j - 1) + Contribution(j - 1)

\* Display messages the whole of flattenArg contributes, by the rule.
Contributions ==
    IF flattenArg = <<>> THEN 0
    ELSE Offset(Len(flattenArg)) + Contribution(Len(flattenArg))

\* C9: a message with an image reference and at least two segments
\* contributes exactly one display message: the second segment with the
\* image reference; no other segment of it is emitted.
C9_ImageMessageShowsSecondSegment ==
    flattenDone =>
        \A j \in 1..Len(flattenArg) :
            LET m == flattenArg[j]
            IN  (m.image_path # "" /\ Len(m.content_split) >= 2) =>
                    /\ Offset(j) + 1 <= Len(flattenRes)
                    /\ flattenRes[Offset(j) + 1].content = m.content_split[2]
                    /\ flattenRes[Offset(j) + 1].image_path = m.image_path
                    /\ Len(flattenRes) = Contributions

C9_Witness ==
    /\ flattenDone
    /\ Len(flattenArg) = 2
    /\ flattenArg[1].image_path # ""
    /\ Len(flattenArg[1].content_split) = 3
    /\ Len(flattenArg[2].content_split) = 1
    /\ Len(flattenRes) = 2

\* C10: a message without an image reference, or with fewer than two
\* segments, contributes one display message per segment, in segment order,
\* each with the message's role, mood and image reference; the result for a
\* list is the contributions of its messages in list order.
C10_OnePerSegmentInOrder ==
    flattenDone =>
        /\ Len(flattenRes) = Contributions
        /\ \A j \in 1..Len(flattenArg) :
               LET m == flattenArg[j]
               IN  (m.image_path = "" \/ Len(m.content_split) < 2) =>
                       \A k \in 1..Len(m.content_split) :
                           flattenRes[Offset(j) + k] =
                               [role |-> m.role, content |-> m.content_split[k],
                                mood |-> m.mood, image_path |-> m.image_path]

C10_Witness ==
    /\ flattenDone
    /\ Len(flattenArg) = 2
    /\ flattenArg[1].image_path = ""
    /\ Len(flattenArg[1].content_split) = 3
    /\ flattenArg[2].image_path # ""
    /\ Len(flattenArg[2].content_split) = 1
    /\ Len(flattenRes) = 4

\* C11: resolving a mood returns, whatever the probes answer (every one may
\* fail), and begins at most two rounds: the second is for "normal", and a
\* call for "normal" begins no second one.
C11_MoodResolutionTerminates ==
    /\ [](moodRounds <= 2)
    /\ [](moodArg = "normal" => moodRounds <= 1)
    /\ [](moodRounds = 2 => moodRound.mood = "normal")
    /\ [](Len(moodLog) <= moodRounds * Len(ProbeOrder))
    /\ <>(moodRes # NoResult)

C11_Witness ==
    /\ moodRes # NoResult
    /\ moodArg = "excited"
    /\ moodRounds = 2
    /\ Len(moodLog) = 12
    /\ \A i \in 1..Len(moodLog) : moodLog[i].outcome = "throws"

\* What the i-th probe of a call for moodArg asks for when every earlier
\* probe found nothing.
Expected(i) ==
    [mood |-> IF i <= Len(ProbeOrder) THEN moodArg ELSE "normal",
     extension |-> << "mp4", "png", "jpg", "jpeg", "gif", "webp" >>[((i - 1) % 6) + 1]]

\* The assets the settled probes found.
Found == { << moodLog[i].mood, moodLog[i].extension >> :
               i \in { j \in 1..Len(moodLog) : moodLog[j].outcome = "ok" } }

\* C12: the probes go through mp4, png, jpg, jpeg, gif, webp for the mood
\* asked for, then for "normal"; the call returns the first asset a probe
\* finds, and {"normal", "png"} when none does.  The extension returned is
\* one of the six, the mood returned is the mood asked for or "normal".
C12_FirstExistingExtension ==
    /\ \A i \in 1..Len(moodLog) :
           /\ moodLog[i].mood = Expected(i).mood
           /\ moodLog[i].extension = Expected(i).extension
           /\ i < Len(moodLog) => moodLog[i].outcome # "ok"
    /\ Len(moodLog) > Len(ProbeOrder) => moodArg # "normal"
    /\ moodRes # NoResult =>
           /\ moodLog # <<>>
           /\ IF moodLog[Len(moodLog)].outcome = "ok"
              THEN moodRes = Expected(Len(moodLog))
              ELSE /\ moodRes = [mood |-> "normal", extension |-> "png"]
                   /\ Len(moodLog) = IF moodArg = "normal" THEN 6 ELSE 12
           /\ moodRes.extension \in { "mp4", "png", "jpg", "jpeg", "gif", "webp" }
           /\ moodRes.mood \in { moodArg, "normal" }
           /\ moodRes = get_extension(Found, moodArg)

C12_Witness ==
    /\ moodRes = [mood |-> "normal", extension |-> "jpg"]
    /\ moodArg = "excited"
    /\ Len(moodLog) = 9

\* The last step was the reply to a status query.
PollReplyIdle == event.name = "pollReplied" /\ event.status = "idle"
PollReplyRunning == event.name = "pollReplied" /\ event.status # "idle"

C14_FailedQueryStopsPolling ==
    /\ [](event.name = "pollFailed" =>
              /\ event.timer \notin timers
              /\ ~summarizing
              /\ summarizeError # "")
    /\ [][event'.name = "pollFailed" => messages' = messages]_vars

C14_Witness ==
    /\ event.name = "pollFailed"
    /\ messages # <<>>
    /\ summarizeError = "Failed to check status"

\* C15: a status query is issued only by a poll interval that is set, and a
\* poll interval is set only by the step that takes the reply to a start
\* request; the failure of a start request sets no poll interval, clears
\* summarizing and sets summarizeError.
C15_PollingStartsAfterAcceptance ==
    /\ [][("status" \in event'.issued) =>
              (event'.name = "pollInterval" /\ event'.timer \in timers)]_vars
    /\ [][(timers' \ timers # {}) => event'.name = "startReplied"]_vars
    /\ [][event'.name = "startFailed" =>
              /\ timers' = timers
              /\ ~summarizing'
              /\ summarizeError' # ""]_vars

C15_Witness ==
    /\ event.name = "startFailed"
    /\ timers = {}
    /\ polls = <<>>
    /\ ~summarizing
    /\ summarizeError # ""

\* C16: once the cleanup of onMount has run, no step issues a should-send
\* query or a status query.
C16_NoQueryAfterTeardown ==
    ~mounted => event.issued \cap { "should-send", "status" } = {}

\* The last step was a step of triggerWebSearch or triggerReminisce.
BackgroundStep ==
    \/ event'.name \in { "triggerWebSearch", "triggerReminisce" }
    \/ event'.exited.kind \in { "web", "reminisce" }

\* C17: no step of triggerWebSearch or triggerReminisce (call, reply,
\* failure) changes the timeline, the pending attachment or the mood shown.
C17_BackgroundActionsLeaveTimeline ==
    [][BackgroundStep =>
          UNCHANGED << messages, attachedImage, currentMood, currentExtension >>]_vars

C17_Witness ==
    /\ Exited.kind = "reminisce"
    /\ Exited.outcome = "fail"
    /\ event.alert = "insufficient"
    /\ messages # <<>>

\* C18: a failed send alerts the summarization conflict exactly when its
\* error text contains "503" or "summarization", and the generic error
\* otherwise; a failed reminisce alerts the insufficient history exactly when
\* its error text contains "Not enough messages", and the generic error
\* otherwise.
C18_ErrorClassification ==
    /\ SendDidFail =>
           event.alert = IF Exited.err \cap { "503", "summarization" } # {}
                         THEN "conflict" ELSE "error"
    /\ (Exited.kind = "reminisce" /\ Exited.outcome = "fail") =>
           event.alert = IF "Not enough messages" \in Exited.err
                         THEN "insufficient" ELSE "error"

C18_Witness ==
    /\ SendDidFail
    /\ Exited.err = { "summarization" }
    /\ event.alert = "conflict"

\* The last step was a failure on the proactive-check path.
ProactiveCheckFailure ==
    \/ event'.name = "checkFailed"
    \/ event'.exited.kind = "auto" /\ event'.exited.outcome = "fail"

\* C19: a failed should-send query and a failed automatic proactive send
\* alert nothing, set no error state, leave the timeline as it was and leave
\* the check interval set: its next tick can run.
C19_ProactiveFailuresAreSilent ==
    /\ [][ProactiveCheckFailure =>
              /\ event'.alert = ""
              /\ UNCHANGED << messages, connectionError, summarizeError, mounted >>]_vars
    /\ []((event.name = "checkFailed" \/ (Exited.kind = "auto" /\ Exited.outcome = "fail")) =>
              (mounted /\ ENABLED proactiveCheckInterval))

C19_Witness ==
    /\ Exited.kind = "auto"
    /\ Exited.outcome = "fail"
    /\ event.alert = ""
    /\ messages # <<>>

\* C20: fetch is called for no request before loadConfig has returned, and
\* once it has, no request is left waiting; where config.json could not be
\* loaded, every request goes to the default address with the default
\* credential, and no step alerts.
C20_RequestsAwaitConfig ==
    /\ configLoaded # "resolved" => requests = <<>>
    /\ configLoaded = "resolved" => waiting = <<>>
    /\ loadOutcome = "unavailable" =>
           \A i \in 1..Len(requests) :
               /\ requests[i].url = << "http://localhost:3000", requests[i].endpoint >>
               /\ requests[i].authorization = << "Bearer", "dev-key" >>
    /\ event.alert = ""

C20_Witness ==
    /\ event.name = "configParseFailed"
    /\ Len(requests) = 2
    /\ requests[1].url = << "http://localhost:3000", "/api/history" >>
    /\ requests[2].endpoint = "/api/message"

\* The last step accepted a send.
SendAccepted == event.name = "send" /\ event.issued # {}

\* C21: the step that accepts a send empties the pending attachment, sets the
\* busy flag, appends the user message with the trimmed text and the pending
\* attachment's filename as image_path (none when nothing was pending), and
\* issues the unified-message request with exactly the attachment that was
\* pending as its single image, or with no image when nothing was pending.
C21_AcceptanceConsumesAttachment ==
    [][(event'.name = "send" /\ event'.issued # {}) =>
          /\ attachedImage' = Null
          /\ puriraWriting'
          /\ event'.issued = { "message" }
          /\ Len(ops') = Len(ops) + 1
          /\ ops'[Len(ops')].kind = "send"
          /\ ops'[Len(ops')].text = Trim(message)
          /\ IF attachedImage = Null
             THEN /\ messages' = Append(messages,
                                        [role |-> "user", content |-> Trim(message),
                                         mood |-> "", image_path |-> ""])
                  /\ ops'[Len(ops')].images = <<>>
             ELSE \E img \in Images :
                     /\ attachedImage = JSONstringify(img)
                     /\ messages' = Append(messages,
                                           [role |-> "user", content |-> Trim(message),
                                            mood |-> "", image_path |-> img.filename])
                     /\ ops'[Len(ops')].images = << img >>]_vars

C21_Witness ==
    /\ SendAccepted
    /\ attachedImage = Null
    /\ puriraWriting
    /\ messages[Len(messages)].image_path = "2.jpg"
    /\ ops[Len(ops)].images = << [filename |-> "2.jpg", data |-> "BBBB"] >>

\* C22: every step that changes the timeline either appends one message at
\* its end or truncates it to a prefix; no step modifies, reorders or
\* replaces an entry the timeline has, the history load included.
C22_TimelineAppendOrTruncate ==
    [][messages' # messages =>
          \/ /\ Len(messages') = Len(messages) + 1
             /\ SubSeq(messages', 1, Len(messages)) = messages
          \/ /\ Len(messages') < Len(messages)
             /\ messages' = SubSeq(messages, 1, Len(messages'))]_vars

\* The last step finished the reveal of a reply.
RevealFinished ==
    Exited.outcome = "ok" /\ Exited.kind \in { "send", "manual", "auto" }

\* The step is one of the reveal of a batch in which no message carries a
\* mood.
MoodlessRevealStep ==
    \E k \in 1..Len(ops) :
        /\ After(k) # ops[k]
        /\ After(k).batch # <<>>
        /\ FindLastMood(After(k).batch) = ""

\* C23: when a reveal finishes, the mood and extension shown are those
\* get_extension gives for the mood of the last message of the batch that
\* carries one; the steps of a reveal of a batch in which no message carries
\* a mood leave the mood and extension shown as they were.
C23_RevealEndsWithLastMood ==
    /\ []((RevealFinished /\ FindLastMood(Exited.batch) # "") =>
              LET r == get_extension(assets, FindLastMood(Exited.batch))
              IN  currentMood = r.mood /\ currentExtension = r.extension)
    /\ [][MoodlessRevealStep => UNCHANGED << currentMood, currentExtension >>]_vars

\* C24: the step that takes a false answer to the should-send query issues no
\* request, starts no call and leaves the timeline as it was.  The step that
\* takes a true answer while neither busy flag is set starts the automatic
\* proactive send: it issues the proactive-message request and appends
\* nothing.  Every step of that call leaves the pending attachment alone and
\* either leaves the timeline alone or appends the next message of
\* flatten(response), which is no user message; a call that succeeded has
\* appended all of them.
C24_ProactiveTickSendsOrSkips ==
    /\ [][event'.name = "checkReplied" =>
              /\ event'.issued = {}
              /\ UNCHANGED << messages, attachedImage, ops, puriraWriting >>]_vars
    /\ [][(event'.name = "sendProactiveMessageAuto" /\ ~puriraWriting /\ ~summarizing) =>
              /\ event'.issued = { "proactive-message" }
              /\ Len(ops') = Len(ops) + 1
              /\ ops'[Len(ops')].kind = "auto"
              /\ UNCHANGED << messages, attachedImage >>]_vars
    /\ [][\A k \in 1..Len(ops) :
              (ops[k].kind = "auto" /\ Len(ops') <= Len(ops) /\ After(k) # ops[k]) =>
                  /\ attachedImage' = attachedImage
                  /\ After(k).outcome = "ok" => After(k).batch = flattenMessages(After(k).resp)
                  /\ IF After(k).i = ops[k].i
                     THEN messages' = messages
                     ELSE /\ After(k).i = ops[k].i + 1
                          /\ messages' = Append(messages,
                                                flattenMessages(After(k).resp)[After(k).i])
                          /\ messages'[Len(messages')].role # "user"]_vars
    /\ []((Exited.kind = "auto" /\ Exited.outcome = "ok") =>
              Exited.i = Len(flattenMessages(Exited.resp)))

C24_Witness ==
    /\ Exited.kind = "auto"
    /\ Exited.outcome = "ok"
    /\ Len(flattenMessages(Exited.resp)) = 2
    /\ messages = Exited.pre \o flattenMessages(Exited.resp)
    /\ attachedImage # Null

\* C25: in no reachable state are puriraWriting and summarizing both true.
C25_SendingExcludesSummarizing ==
    ~(puriraWriting /\ summarizing)

\* C26: while a poll interval is set (started and not yet cleared),
\* summarizing is true.
C26_ActiveTimerImpliesSummarizing ==
    timers # {} => summarizing

\* C27: the rollback of a failed send removes nothing but what that send
\* appended, its user message; it removes no message that the history load
\* placed in the timeline.
C27_RollbackRemovesOwnMessages ==
    [][(event'.exited.kind = "send" /\ event'.exited.outcome = "fail") =>
          /\ Len(messages') <= Len(messages)
          /\ messages' = SubSeq(messages, 1, Len(messages'))
          /\ Len(messages) - Len(messages') <= 1
          /\ \A j \in (Len(messages') + 1)..Len(messages) :
                 /\ messages[j].role = "user"
                 /\ messages[j].content = event'.exited.text]_vars

\* C28: an attachment that is pending stays the pending attachment until the
\* user clears it, an attachImage call completes with another one, or a send
\* is accepted and consumes it; the failure of a send does not replace it.
C28_AttachmentStaysUntilConsumed ==
    [][(attachedImage # Null /\ attachedImage' # attachedImage) =>
          \/ event'.name = "clearAttachment"
          \/ event'.name = "attachImageDone"
          \/ event'.name = "send" /\ event'.issued # {}]_vars

\* C29: the automatic path issues its proactive-message request only in a
\* step that starts with both busy flags clear, whatever was started while
\* the should-send query was pending; at most one proactive-message request
\* of the automatic path is pending at a time.
C29_AutoRequestOnlyWhenIdle ==
    /\ [][(event'.name = "sendProactiveMessageAuto" /\ event'.issued # {}) =>
              (~puriraWriting /\ ~summarizing)]_vars
    /\ [][(event'.name = "sendProactiveMessageAuto" /\ (puriraWriting \/ summarizing)) =>
              (event'.issued = {} /\ UNCHANGED << ops, puriraWriting, messages >>)]_vars
    /\ [](Cardinality({ k \in 1..Len(ops) : ops[k].kind = "auto" /\ ops[k].pc = "call" }) <= 1)

C29_Witness ==
    /\ event.name = "sendProactiveMessageAuto"
    /\ event.issued = {}
    /\ Len(ops) = 1
    /\ ops[1].kind = "auto"
    /\ ops[1].pc = "call"

\* C30: summarizing is true only while a start request is pending or a poll
\* interval is set, so something is left that clears it; a status query that
\* answers "idle" or fails leaves its interval cleared and summarizing
\* false; and where requests settle, intervals fire and the server does not
\* answer "running" for ever, summarizing becomes false again and every poll
\* interval is cleared.
C30_SummarizationEnds ==
    /\ [](summarizing => (starts > 0 \/ timers # {}))
    /\ []((PollReplyIdle \/ event.name = "pollFailed") =>
              (event.timer \notin timers /\ ~summarizing))
    /\ summarizing ~> ~summarizing
    /\ \A t \in TimerIds : (t \in timers) ~> (t \notin timers)

C30_Witness ==
    /\ PollReplyIdle
    /\ timers = {}
    /\ starts = 0
    /\ ~summarizing
    /\ polls # <<>>
    /\ ~mounted

============================================================================
